---- MODULE Spec2Model ----
(***************************************************************************)
(* A model of analyse_cc4s.py: structure-factor twist averaging.           *)
(*                                                                         *)
(* main() is a straight-line pipeline; every function it calls is one      *)
(* action and pc is main's position.  The file system (the directories     *)
(* and the three *.elements files of each) and the command line are the    *)
(* inputs, drawn by the Init predicates.                                   *)
(*                                                                         *)
(* Numbers.  Grid components and magnitudes are fixed-point integers in    *)
(* units of 1e-11, so that G.round(10) is a real rounding to a multiple of *)
(* RoundUnit.  Means, residuals and squared standard errors are exact      *)
(* rationals <<numerator, denominator>> in lowest terms; float64 rounding  *)
(* error is not modelled.  <<0, 0>> stands for NaN.                        *)
(*                                                                         *)
(* Strings that the program inspects (the --write name) are sequences of   *)
(* one-character strings.                                                  *)
(***************************************************************************)
EXTENDS Integers, Sequences, FiniteSets, Bags, TLC

VARIABLES
    directories,          \* main: the positional arguments, in input order
    fs,                   \* the file system: directory -> its three files
    write,                \* options.write: [given, name]
    pc,                   \* where main is
    calls,                \* the functions main has called so far, in order
    reads,                \* the files np.loadtxt has been called on, in order
    Gvector_files,        \* find_SF_outputs's three result lists
    Coulomb_files,
    S_G_files,
    raw_SF,               \* the list of per-run tables
    SF,                   \* the average table
    special_twist_index,  \* 0-based; -1 while unset
    err,                  \* the exception that ended main, if any
    stdout,               \* the lines printed
    written               \* the files written, in order: [name, table]

vars == <<directories, fs, write, pc, calls, reads, Gvector_files, Coulomb_files,
          S_G_files, raw_SF, SF, special_twist_index, err, stdout, written>>

(***************************************************************************)
(* Bounds of the model.                                                    *)
(***************************************************************************)
MaxDirs == 2      \* directories on the command line (Spec)
MaxRuns == 3      \* runs (SpecValues, SpecRound)
MaxRows == 4      \* G-vectors over all runs (SpecValues, SpecRound)
MaxParts == 3     \* parts a --write name is built from

(* 10 model units (1e-11) make one unit of the 10th decimal place. *)
RoundUnit == 10

(***************************************************************************)
(* Sequences and exact arithmetic.                                         *)
(***************************************************************************)
Abs(x) == IF x < 0 THEN -x ELSE x

Min(a, b) == IF a < b THEN a ELSE b

RECURSIVE GCD(_, _)
GCD(a, b) == IF b = 0 THEN a ELSE GCD(b, a % b)

Rat(n, d) ==
    LET g == GCD(Abs(n), Abs(d))
        s == IF d < 0 THEN -1 ELSE 1
    IN  <<(s * n) \div g, (s * d) \div g>>

NaN == <<0, 0>>

RatSub(p, q) == Rat(p[1] * q[2] - q[1] * p[2], p[2] * q[2])

RatAdd(p, q) == Rat(p[1] * q[2] + q[1] * p[2], p[2] * q[2])

RatMul(p, q) == Rat(p[1] * q[1], p[2] * q[2])

RatLess(p, q) == p[1] * q[2] < q[1] * p[2]

RECURSIVE Sum(_)
Sum(xs) == IF xs = <<>> THEN 0 ELSE Head(xs) + Sum(Tail(xs))

RECURSIVE SumSq(_)
SumSq(xs) == IF xs = <<>> THEN 0 ELSE Head(xs) * Head(xs) + SumSq(Tail(xs))

RECURSIVE RatSum(_)
RatSum(ps) == IF ps = <<>> THEN <<0, 1>> ELSE RatAdd(Head(ps), RatSum(Tail(ps)))

RECURSIVE Concat(_)
Concat(ss) == IF ss = <<>> THEN <<>> ELSE Head(ss) \o Concat(Tail(ss))

Range(s) == {s[k] : k \in DOMAIN s}

(* np.sqrt on the sums of squares the model feeds it (perfect squares): the *)
(* integer square root, digit by digit.                                     *)
RECURSIVE Sqrt(_)
Sqrt(n) ==
    IF n < 2 THEN n
    ELSE LET r == 2 * Sqrt(n \div 4)
         IN  IF (r + 1) * (r + 1) > n THEN r ELSE r + 1

(***************************************************************************)
(* Exceptions.  NoError is err's value while nothing was raised.           *)
(***************************************************************************)
NoError == [type |-> "None", origin |-> "None", path |-> <<>>]

Raised(type, origin, path) == [type |-> type, origin |-> origin, path |-> path]

(***************************************************************************)
(* find_SF_outputs: the three paths of each directory, in input order; the *)
(* first file that is not there raises, nothing having been read.          *)
(***************************************************************************)
GridName == "GridVectors.elements"
CoulombName == "CoulombPotential.elements"
SFName == "SF.elements"

IsFile(path) ==
    CASE path[2] = GridName    -> fs[path[1]].grid.exists
      [] path[2] = CoulombName -> fs[path[1]].coulomb.exists
      [] path[2] = SFName      -> fs[path[1]].sf.exists

FileData(path) ==
    CASE path[2] = GridName    -> fs[path[1]].grid.data
      [] path[2] = CoulombName -> fs[path[1]].coulomb.data
      [] path[2] = SFName      -> fs[path[1]].sf.data

(* The three paths the loop body checks for one directory, in its order. *)
PathsOf(dir) == << <<dir, GridName>>, <<dir, CoulombName>>, <<dir, SFName>> >>

(* A variant that tests SF.elements before CoulombPotential.elements. *)
CheckOrderSwapped(dirs) ==
    Concat([i \in 1..Len(dirs) |->
               << <<dirs[i], GridName>>, <<dirs[i], SFName>>, <<dirs[i], CoulombName>> >>])

(* Every path find_SF_outputs may test, in the order it tests them. *)
CheckOrder(dirs) == Concat([i \in 1..Len(dirs) |-> PathsOf(dirs[i])])

MissingPaths(dirs) == SelectSeq(CheckOrder(dirs), LAMBDA p : ~IsFile(p))

find_SF_outputs(dirs) ==
    IF MissingPaths(dirs) # <<>>
    THEN [ok |-> FALSE, err |-> Raised("ValueError", "find_SF_outputs", Head(MissingPaths(dirs)))]
    ELSE [ok |-> TRUE, err |-> NoError,
          Gvector_files |-> [i \in 1..Len(dirs) |-> <<dirs[i], GridName>>],
          Coulomb_files |-> [i \in 1..Len(dirs) |-> <<dirs[i], CoulombName>>],
          S_G_files     |-> [i \in 1..Len(dirs) |-> <<dirs[i], SFName>>]]

(***************************************************************************)
(* np.loadtxt of a flat file: one number gives a 0-dimensional array, any  *)
(* other count a 1-dimensional one.                                        *)
(***************************************************************************)
LoadTxt(path) ==
    [ndim |-> IF Len(FileData(path)) = 1 THEN 0 ELSE 1, data |-> FileData(path)]

(* raw_g_xyz.shape[0] of a 0-d array raises IndexError; reshape((N_G, 3)) of *)
(* a count that is no multiple of 3 raises ValueError; einsum and sqrt give *)
(* the magnitudes in file order.                                            *)
read_and_generate_Gvector_magnitudes(path) ==
    LET raw_g_xyz == LoadTxt(path)
        N_G == Len(raw_g_xyz.data) \div 3
        g(i) == raw_g_xyz.data[3 * i - 2] * raw_g_xyz.data[3 * i - 2]
                + raw_g_xyz.data[3 * i - 1] * raw_g_xyz.data[3 * i - 1]
                + raw_g_xyz.data[3 * i] * raw_g_xyz.data[3 * i]
    IN  IF raw_g_xyz.ndim = 0
        THEN [ok |-> FALSE, err |-> Raised("IndexError", "shape", path), G |-> <<>>]
        ELSE IF 3 * N_G # Len(raw_g_xyz.data)
        THEN [ok |-> FALSE, err |-> Raised("ValueError", "reshape", path), G |-> <<>>]
        ELSE [ok |-> TRUE, err |-> NoError, G |-> [i \in 1..N_G |-> Sqrt(g(i))]]

read_Vg(path) == LoadTxt(path)

read_Sg(path) == LoadTxt(path)

(* A variant that cuts the digits after the 10th instead of rounding. *)
Round10Truncate(m) == (m \div RoundUnit) * RoundUnit

(* numpy's round: to the nearest multiple of RoundUnit, ties to the even one. *)
Round10(m) ==
    LET q == m \div RoundUnit
        r == m % RoundUnit
    IN  IF 2 * r < RoundUnit THEN q * RoundUnit
        ELSE IF 2 * r > RoundUnit THEN (q + 1) * RoundUnit
        ELSE IF q % 2 = 0 THEN q * RoundUnit ELSE (q + 1) * RoundUnit

(***************************************************************************)
(* pd.DataFrame({'G': G.round(10), 'V_G': V_G, 'S_G': S_G}).  G is always  *)
(* 1-dimensional here and gives the index; a 0-d column is a scalar and is *)
(* broadcast over the index; 1-d columns of another length raise.          *)
(***************************************************************************)
Column(a, n) == IF a.ndim = 0 THEN [k \in 1..n |-> a.data[1]] ELSE a.data

DataFrame(G, V_G, S_G) ==
    LET n == Len(G)
        bad(a) == a.ndim = 1 /\ Len(a.data) # n
    IN  IF bad(V_G) \/ bad(S_G)
        THEN [ok |-> FALSE, err |-> Raised("ValueError", "DataFrame", <<>>), rows |-> <<>>]
        ELSE [ok |-> TRUE, err |-> NoError,
              rows |-> [k \in 1..n |-> [G |-> Round10(G[k]),
                                        V_G |-> Column(V_G, n)[k],
                                        S_G |-> Column(S_G, n)[k]]]]

(* One pass of read_and_average_SF's loop: the files it read, and the table *)
(* or the exception.                                                        *)
LoadRun(files) ==
    LET G == read_and_generate_Gvector_magnitudes(files[1])
        SFi == DataFrame(G.G, read_Vg(files[2]), read_Sg(files[3]))
    IN  IF ~G.ok THEN [ok |-> FALSE, err |-> G.err, read |-> <<files[1]>>, rows |-> <<>>]
        ELSE [ok |-> SFi.ok, err |-> SFi.err, read |-> files, rows |-> SFi.rows]

(***************************************************************************)
(* groupby('G', as_index=False): the keys are the distinct G values in     *)
(* ascending order (sort=True is the default); mean() and sem() aggregate  *)
(* each other column over a key's rows.                                    *)
(***************************************************************************)
RECURSIVE SortSet(_)
SortSet(S) ==
    IF S = {} THEN <<>>
    ELSE LET m == CHOOSE x \in S : \A y \in S : x <= y
         IN  <<m>> \o SortSet(S \ {m})

(* A variant with sort=False: the keys in order of first appearance. *)
RECURSIVE FirstAppearance(_)
FirstAppearance(gs) ==
    IF gs = <<>> THEN <<>>
    ELSE <<Head(gs)>> \o FirstAppearance(SelectSeq(Tail(gs), LAMBDA g : g # Head(gs)))

GroupKeysUnsorted(rows) == FirstAppearance([k \in 1..Len(rows) |-> rows[k].G])

GroupKeys(rows) == SortSet({rows[k].G : k \in DOMAIN rows})

GroupRows(rows, key) == SelectSeq(rows, LAMBDA r : r.G = key)

(* A variant that aggregates with sum() instead of mean(). *)
MeanAsSum(xs) == Rat(Sum(xs), 1)

Mean(xs) == Rat(Sum(xs), Len(xs))

(* sem() is std(ddof=1)/sqrt(n): NaN for a group of one row.  The model    *)
(* keeps its square, (n*sum(x^2) - sum(x)^2) / (n^2 * (n-1)).              *)
SemSquared(xs) ==
    LET n == Len(xs)
    IN  IF n < 2 THEN NaN
        ELSE Rat(n * SumSq(xs) - Sum(xs) * Sum(xs), n * n * (n - 1))

VColumn(rows) == [j \in 1..Len(rows) |-> rows[j].V_G]

SColumn(rows) == [j \in 1..Len(rows) |-> rows[j].S_G]

(* groupby(...).mean(): one row per key, the key in G. *)
GroupByMean(rows) ==
    LET keys == GroupKeys(rows)
        grp == [k \in 1..Len(keys) |-> GroupRows(rows, keys[k])]
    IN  [k \in 1..Len(keys) |->
            [G |-> keys[k], V_G |-> Mean(VColumn(grp[k])), S_G |-> Mean(SColumn(grp[k]))]]

(* groupby(...).sem() with as_index=False: its G column holds the keys. *)
GroupBySem(rows) ==
    LET keys == GroupKeys(rows)
        grp == [k \in 1..Len(keys) |-> GroupRows(rows, keys[k])]
    IN  [k \in 1..Len(keys) |->
            [G |-> keys[k], V_G |-> SemSquared(VColumn(grp[k])),
             S_G |-> SemSquared(SColumn(grp[k]))]]

(* SF = group.mean(), then the three error columns from group.sem(). *)
WithErrors(mean, sem) ==
    [k \in 1..Len(mean) |->
        [G |-> mean[k].G, V_G |-> mean[k].V_G, S_G |-> mean[k].S_G,
         G_error |-> sem[k].G, V_G_error |-> sem[k].V_G, S_G_error |-> sem[k].S_G]]

(* Lines 193-195: the average table of the concatenated runs. *)
AverageSF(raw) ==
    LET group == Concat(raw)
        mean == GroupByMean(group)
        sem == GroupBySem(group)
    IN  WithErrors(mean, sem)

(***************************************************************************)
(* find_special_twist_angle.                                               *)
(***************************************************************************)
(* SF['S_G'] - aSFi['S_G'] aligns the two columns on their positions; a    *)
(* position only one of them has gives NaN, which sum() skips.             *)
Residual(avg, aSFi) ==
    RatSum([k \in 1..Min(Len(avg), Len(aSFi)) |->
               RatMul(RatSub(avg[k].S_G, aSFi[k].S_G), RatSub(avg[k].S_G, aSFi[k].S_G))])

GColumn(table) == [k \in 1..Len(table) |-> table[k].G]

(* np.array_equal(aSFi['G'], SF['G']) *)
ArrayEqual(a, b) == Len(a) = Len(b) /\ \A k \in 1..Len(a) : a[k] = b[k]

(* A variant that keeps the last position of the minimum. *)
ArgMinLast(rs) ==
    (CHOOSE i \in 1..Len(rs) :
        /\ \A j \in 1..Len(rs) : ~RatLess(rs[j], rs[i])
        /\ \A j \in (i + 1)..Len(rs) : RatLess(rs[i], rs[j])) - 1

(* np.argmin: the first position of the minimum, 0-based. *)
ArgMin(rs) ==
    (CHOOSE i \in 1..Len(rs) :
        /\ \A j \in 1..Len(rs) : ~RatLess(rs[j], rs[i])
        /\ \A j \in 1..(i - 1) : RatLess(rs[i], rs[j])) - 1

(* A variant that checks the first run only. *)
InconsistentFirstRun(raw, avg) ==
    {i \in 1..Min(1, Len(raw)) : ~ArrayEqual(GColumn(GroupByMean(raw[i])), GColumn(avg))}

(* The runs whose check at line 222 fails. *)
Inconsistent(raw, avg) ==
    {i \in 1..Len(raw) : ~ArrayEqual(GColumn(GroupByMean(raw[i])), GColumn(avg))}

find_special_twist_angle(raw, avg) ==
    LET residuals == [i \in 1..Len(raw) |-> Residual(avg, GroupByMean(raw[i]))]
    IN  IF Inconsistent(raw, avg) # {}
        THEN [ok |-> FALSE, index |-> -1,
              err |-> Raised("ValueError", "find_special_twist_angle", <<>>)]
        ELSE [ok |-> TRUE, index |-> ArgMin(residuals), err |-> NoError]

(***************************************************************************)
(* write_sfTA_csv.                                                         *)
(***************************************************************************)
Csv == <<".", "c", "s", "v">>
TwistSuffix ==
    <<"_", "T", "w", "i", "s", "t", "_", "a", "n", "g", "l", "e", "_", "N", "u", "m",
      "_", "m", "a", "p">> \o Csv

IsPrefix(p, s) == Len(p) <= Len(s) /\ SubSeq(s, 1, Len(p)) = p

(* '.csv' in csv_file *)
Contains(s, p) == \E k \in 0..(Len(s) - Len(p)) : SubSeq(s, k + 1, k + Len(p)) = p

(* str.replace: every occurrence, left to right, not overlapping. *)
RECURSIVE Replace(_, _, _)
Replace(s, old, new) ==
    IF s = <<>> THEN <<>>
    ELSE IF IsPrefix(old, s)
         THEN new \o Replace(SubSeq(s, Len(old) + 1, Len(s)), old, new)
         ELSE <<Head(s)>> \o Replace(Tail(s), old, new)

CsvFile(name) == IF ~Contains(name, Csv) THEN name \o Csv ELSE name

CsvTwist(name) == Replace(CsvFile(name), Csv, TwistSuffix)

(* oSFi: run i's rows tagged with i (1-based; the model's run index). *)
Tagged(rows, i) ==
    [k \in 1..Len(rows) |->
        [Twist |-> i, G |-> rows[k].G, V_G |-> rows[k].V_G, S_G |-> rows[k].S_G]]

Without(rows, k) == SubSeq(rows, 1, k - 1) \o SubSeq(rows, k + 1, Len(rows))

(* The positions of the rows of least G. *)
Least(rows) == {k \in DOMAIN rows : \A j \in DOMAIN rows : rows[k].G <= rows[j].G}

(* A variant that leaves the rows in table order. *)
SortValuesUnsorted(rows) == {rows}

(* sort_values(by='G') uses an unstable sort: any ascending order of the   *)
(* rows is a possible result.                                              *)
RECURSIVE SortValues(_)
SortValues(rows) ==
    IF rows = <<>> THEN {<<>>}
    ELSE UNION {{<<rows[k]>> \o s : s \in SortValues(Without(rows, k))} : k \in Least(rows)}

(* pd.concat(csv_SF): every table the export may hold for runs i..N. *)
RECURSIVE CsvTables(_, _)
CsvTables(raw, i) ==
    IF i > Len(raw) THEN {<<>>}
    ELSE {b \o rest : b \in SortValues(Tagged(raw[i], i)), rest \in CsvTables(raw, i + 1)}

(* zip(raw_SF, directories) *)
CsvMap(raw, dirs) ==
    [i \in 1..Min(Len(raw), Len(dirs)) |-> [Twist |-> i, directory |-> dirs[i]]]

(* Lines 185-197: the loop stops at the first run that raises; the files  *)
(* read until then stay read.                                              *)
read_and_average_SF(Gfiles, Cfiles, Sfiles) ==
    LET n == Min(Len(Gfiles), Min(Len(Cfiles), Len(Sfiles)))
        run == [i \in 1..n |-> LoadRun(<<Gfiles[i], Cfiles[i], Sfiles[i]>>)]
        bad == {i \in 1..n : ~run[i].ok}
        first == CHOOSE i \in bad : \A j \in bad : i <= j
        raw == [i \in 1..n |-> run[i].rows]
    IN  IF bad # {}
        THEN [ok |-> FALSE, err |-> run[first].err,
              read |-> Concat([i \in 1..first |-> run[i].read]),
              raw_SF |-> <<>>, SF |-> <<>>]
        ELSE [ok |-> TRUE, err |-> NoError,
              read |-> Concat([i \in 1..n |-> run[i].read]),
              raw_SF |-> raw, SF |-> AverageSF(raw)]

(***************************************************************************)
(* main, one action per call.                                              *)
(***************************************************************************)
FindSFOutputs ==
    /\ pc = "start"
    /\ \E r \in {find_SF_outputs(directories)} :
           /\ pc' = IF r.ok THEN "found" ELSE "error"
           /\ err' = r.err
           /\ Gvector_files' = IF r.ok THEN r.Gvector_files ELSE <<>>
           /\ Coulomb_files' = IF r.ok THEN r.Coulomb_files ELSE <<>>
           /\ S_G_files' = IF r.ok THEN r.S_G_files ELSE <<>>
    /\ calls' = Append(calls, "find_SF_outputs")
    /\ UNCHANGED <<directories, fs, write, reads, raw_SF, SF, special_twist_index,
                   stdout, written>>

ReadAndAverageSF ==
    /\ pc = "found"
    /\ \E r \in {read_and_average_SF(Gvector_files, Coulomb_files, S_G_files)} :
           /\ pc' = IF r.ok THEN "averaged" ELSE "error"
           /\ err' = r.err
           /\ reads' = reads \o r.read
           /\ raw_SF' = r.raw_SF
           /\ SF' = r.SF
    /\ calls' = Append(calls, "read_and_average_SF")
    /\ UNCHANGED <<directories, fs, write, Gvector_files, Coulomb_files, S_G_files,
                   special_twist_index, stdout, written>>

FindSpecialTwistAngle ==
    /\ pc = "averaged"
    /\ \E r \in {find_special_twist_angle(raw_SF, SF)} :
           /\ pc' = IF r.ok THEN "selected" ELSE "error"
           /\ err' = r.err
           /\ special_twist_index' = r.index
    /\ calls' = Append(calls, "find_special_twist_angle")
    /\ UNCHANGED <<directories, fs, write, reads, Gvector_files, Coulomb_files,
                   S_G_files, raw_SF, SF, stdout, written>>

(* A variant of main that exports before the special twist angle is sought. *)
WriteSfTACsvEarly ==
    /\ pc = "averaged"
    /\ write.given
    /\ written = <<>>
    /\ \E table \in CsvTables(raw_SF, 1) :
          written' = written \o
              << [name |-> CsvFile(write.name), table |-> table],
                 [name |-> CsvTwist(write.name), table |-> CsvMap(raw_SF, directories)] >>
    /\ stdout' = stdout \o
          << [text |-> "Saving structure factor data to:", arg |-> CsvFile(write.name)],
             [text |-> "Saving twist angle index map to:", arg |-> CsvTwist(write.name)] >>
    /\ calls' = Append(calls, "write_sfTA_csv")
    /\ UNCHANGED <<directories, fs, write, pc, reads, Gvector_files, Coulomb_files,
                   S_G_files, raw_SF, SF, special_twist_index, err>>

WriteSfTACsv ==
    /\ pc = "selected"
    /\ write.given
    /\ \E table \in CsvTables(raw_SF, 1) :
          written' = written \o
              << [name |-> CsvFile(write.name), table |-> table],
                 [name |-> CsvTwist(write.name), table |-> CsvMap(raw_SF, directories)] >>
    /\ stdout' = stdout \o
          << [text |-> "Saving structure factor data to:", arg |-> CsvFile(write.name)],
             [text |-> "Saving twist angle index map to:", arg |-> CsvTwist(write.name)] >>
    /\ pc' = "written"
    /\ calls' = Append(calls, "write_sfTA_csv")
    /\ UNCHANGED <<directories, fs, write, reads, Gvector_files, Coulomb_files,
                   S_G_files, raw_SF, SF, special_twist_index, err>>

Report ==
    /\ pc = IF write.given THEN "written" ELSE "selected"
    /\ stdout' = stdout \o
          << [text |-> "Found Special Twist Angle:",
              arg |-> <<directories[special_twist_index + 1]>>] >>
    /\ pc' = "reported"
    /\ UNCHANGED <<directories, fs, write, calls, reads, Gvector_files, Coulomb_files,
                   S_G_files, raw_SF, SF, special_twist_index, err, written>>

(* timer.end(), after main has returned. *)
TimerEnd ==
    /\ pc = "reported"
    /\ stdout' = Append(stdout, [text |-> "Script execution time:", arg |-> <<>>])
    /\ pc' = "done"
    /\ UNCHANGED <<directories, fs, write, calls, reads, Gvector_files, Coulomb_files,
                   S_G_files, raw_SF, SF, special_twist_index, err, written>>

Next ==
    \/ FindSFOutputs
    \/ ReadAndAverageSF
    \/ FindSpecialTwistAngle
    \/ WriteSfTACsv
    \/ Report
    \/ TimerEnd

(***************************************************************************)
(* Inputs.                                                                 *)
(***************************************************************************)
DirNames == {"a", "b", "c"}
DirList == <<"a", "b", "c", "d">>

File(data) == [exists |-> TRUE, data |-> data]
NoFile == [exists |-> FALSE, data |-> <<>>]

NotGiven == [given |-> FALSE, name |-> <<>>]
Given(name) == [given |-> TRUE, name |-> name]

(* The state main starts in, whatever the inputs. *)
Started ==
    /\ pc = "start"
    /\ calls = <<>>
    /\ reads = <<>>
    /\ Gvector_files = <<>>
    /\ Coulomb_files = <<>>
    /\ S_G_files = <<>>
    /\ raw_SF = <<>>
    /\ SF = <<>>
    /\ special_twist_index = -1
    /\ err = NoError
    /\ stdout = <<>>
    /\ written = <<>>

(* File shapes: a grid file of 1, 3, 4 or 6 numbers, field files of 1 or 2; *)
(* or a directory with some of its files missing.                           *)
GridShapes == {<<10>>, <<10, 0, 0>>, <<10, 0, 0, 0>>, <<10, 0, 0, 0, 20, 0>>}
CoulombShapes == {<<1>>, <<1, 2>>}
SFShapes == {<<1>>, <<1, 3>>}

PresentDirs ==
    {[grid |-> File(g), coulomb |-> File(c), sf |-> File(s)] :
        g \in GridShapes, c \in CoulombShapes, s \in SFShapes}

LackingDirs ==
    {[grid |-> IF m[1] THEN NoFile ELSE File(<<10, 0, 0>>),
      coulomb |-> IF m[2] THEN NoFile ELSE File(<<1>>),
      sf |-> IF m[3] THEN NoFile ELSE File(<<1>>)] :
        m \in (BOOLEAN \X BOOLEAN \X BOOLEAN) \ {<<FALSE, FALSE, FALSE>>}}

Init ==
    /\ \E n \in 1..MaxDirs : directories \in [1..n -> DirNames]
    /\ fs \in [Range(directories) -> PresentDirs \cup LackingDirs]
    /\ write \in {NotGiven, Given(<<"o">>)}
    /\ Started

Spec == Init /\ [][Next]_vars

(* Well-formed runs: MaxRows rows in all, dealt to the runs in order. *)
Compositions(k, n) == {l \in [1..n -> 1..k] : Sum(l) = k}

Offset(l, i) == Sum(SubSeq(l, 1, i - 1))

RunDir(rows) ==
    [grid |-> File(Concat([k \in 1..Len(rows) |-> rows[k].vec])),
     coulomb |-> File([k \in 1..Len(rows) |-> rows[k].V_G]),
     sf |-> File([k \in 1..Len(rows) |-> rows[k].S_G])]

InitRows(RowSet) ==
    /\ \E k \in 1..MaxRows : \E n \in 1..Min(k, MaxRuns) :
        \E l \in Compositions(k, n) : \E flat \in [1..k -> RowSet] :
            /\ directories = SubSeq(DirList, 1, n)
            /\ fs = [d \in Range(SubSeq(DirList, 1, n)) |->
                        LET i == CHOOSE j \in 1..n : DirList[j] = d
                        IN  RunDir(SubSeq(flat, Offset(l, i) + 1, Offset(l, i) + l[i]))]
    /\ write = Given(<<"o">>)
    /\ Started

GVecs == {<<10, 0, 0>>, <<0, 20, 0>>}

(* The (V_G, S_G) values a grid point may carry. *)
FieldPairs == {<<1, 0>>, <<2, 1>>}

ValueRows == {[vec |-> v, V_G |-> f[1], S_G |-> f[2]] : v \in GVecs, f \in FieldPairs}

InitValues == InitRows(ValueRows)

SpecValues == InitValues /\ [][Next]_vars

(* Magnitudes around the rounding points 5 and 15 of the 11th digit. *)
FineComps == {4, 5, 6, 14, 15}

FineRows == {[vec |-> <<0, 0, x>>, V_G |-> 1, S_G |-> 1] : x \in FineComps}

InitRound == InitRows(FineRows)

SpecRound == InitRound /\ [][Next]_vars

(* --write names: up to MaxParts parts, with '.csv' anywhere. *)
NameParts == {<<"a">>, Csv, <<".", "c", "s">>}

Names == {Concat(ps) : ps \in UNION {[1..k -> NameParts] : k \in 0..MaxParts}}

InitNames ==
    /\ directories = <<"a">>
    /\ fs = [d \in {"a"} |-> RunDir(<<[vec |-> <<10, 0, 0>>, V_G |-> 1, S_G |-> 1]>>)]
    /\ write \in {NotGiven} \cup {Given(nm) : nm \in Names}
    /\ Started

SpecNames == InitNames /\ [][Next]_vars

(***************************************************************************)
(* Properties.  Their vocabulary is defined on the state, apart from the   *)
(* operators above: sums over the rows of raw_SF, not over grouped tables. *)
(***************************************************************************)
Called(f) == \E k \in DOMAIN calls : calls[k] = f

(* read_and_average_SF has just returned; raw_SF and SF do not change later. *)
Averaged == pc = "averaged"

Runs == DOMAIN raw_SF

RunGSet(i) == {raw_SF[i][k].G : k \in DOMAIN raw_SF[i]}

RowsAt(i, g) == {k \in DOMAIN raw_SF[i] : raw_SF[i][k].G = g}

CountAt(i, g) == Cardinality(RowsAt(i, g))

SSumAt(i, g) ==
    Sum([k \in 1..Len(raw_SF[i]) |-> IF raw_SF[i][k].G = g THEN raw_SF[i][k].S_G ELSE 0])

VSumAt(i, g) ==
    Sum([k \in 1..Len(raw_SF[i]) |-> IF raw_SF[i][k].G = g THEN raw_SF[i][k].V_G ELSE 0])

CountAll(g) == Sum([i \in 1..Len(raw_SF) |-> CountAt(i, g)])

SSumAll(g) == Sum([i \in 1..Len(raw_SF) |-> SSumAt(i, g)])

VSumAll(g) == Sum([i \in 1..Len(raw_SF) |-> VSumAt(i, g)])

SameGrid == \A i, j \in Runs : RunGSet(i) = RunGSet(j)

(* R(i): over the distinct G of the shared grid, the squared difference of *)
(* the ensemble mean S_G and run i's own mean S_G.                         *)
RunResidual(i) ==
    LET gs == SortSet(RunGSet(1))
        d(g) == RatSub(Rat(SSumAll(g), CountAll(g)), Rat(SSumAt(i, g), CountAt(i, g)))
    IN  RatSum([k \in 1..Len(gs) |-> RatMul(d(gs[k]), d(gs[k]))])

FoundLines == {k \in DOMAIN stdout : stdout[k].text = "Found Special Twist Angle:"}

(* C1: when all runs share one set of G-magnitudes, find_special_twist_angle *)
(* returns the 0-based index of a run of minimal residual R, and every run   *)
(* before it has a strictly larger residual (the first minimum).             *)
C1_FirstMinimalResidual ==
    /\ (Called("find_special_twist_angle") /\ SameGrid) =>
           (err = NoError /\ special_twist_index + 1 \in Runs)
    /\ (pc = "selected" /\ SameGrid) =>
           LET R == [i \in Runs |-> RunResidual(i)]
           IN  /\ \A j \in Runs : ~RatLess(R[j], R[special_twist_index + 1])
               /\ \A j \in 1..special_twist_index : RatLess(R[special_twist_index + 1], R[j])

(* Runs 0 and 2 tie at the minimum, run 1 is strictly worse, 0 is chosen. *)
C1_Witness ==
    /\ pc = "selected"
    /\ Len(raw_SF) = 3
    /\ SameGrid
    /\ RunResidual(1) = RunResidual(3)
    /\ RatLess(RunResidual(1), RunResidual(2))
    /\ special_twist_index = 0

GridMismatch(i) == SortSet(RunGSet(i)) # GColumn(SF)

(* C2: once find_special_twist_angle has run, if some run's ascending       *)
(* sequence of distinct G differs from the average table's G column, the    *)
(* grid error was raised and there is no index, no report and no export.    *)
C2_MismatchRaises ==
    (Called("find_special_twist_angle") /\ \E i \in Runs : GridMismatch(i)) =>
        /\ pc = "error"
        /\ err = Raised("ValueError", "find_special_twist_angle", <<>>)
        /\ special_twist_index = -1
        /\ FoundLines = {}
        /\ written = <<>>

(* The first run matches the average table and a later run does not. *)
C2_Witness ==
    /\ pc = "error"
    /\ err.origin = "find_special_twist_angle"
    /\ Len(raw_SF) >= 2
    /\ ~GridMismatch(1)
    /\ GridMismatch(2)

FileExists(i, f) ==
    CASE f = 1 -> fs[directories[i]].grid.exists
      [] f = 2 -> fs[directories[i]].coulomb.exists
      [] f = 3 -> fs[directories[i]].sf.exists

FileNameOf(f) == CASE f = 1 -> GridName [] f = 2 -> CoulombName [] f = 3 -> SFName

Lacking == {m \in (DOMAIN directories) \X (1..3) : ~FileExists(m[1], m[2])}

FirstLacking == CHOOSE m \in Lacking : \A o \in Lacking : 3 * m[1] + m[2] <= 3 * o[1] + o[2]

(* C3: if any required file of any directory is missing, then as soon as    *)
(* main has moved it has failed in find_SF_outputs with the first missing   *)
(* path (input order; grid, potential, structure factor), no file was read, *)
(* and there is no table, no average and no selection.                      *)
C3_MissingFileFailsFirst ==
    (Lacking # {} /\ pc # "start") =>
        /\ pc = "error"
        /\ err = Raised("ValueError", "find_SF_outputs",
                        <<directories[FirstLacking[1]], FileNameOf(FirstLacking[2])>>)
        /\ calls = <<"find_SF_outputs">>
        /\ reads = <<>>
        /\ raw_SF = <<>>
        /\ SF = <<>>
        /\ special_twist_index = -1
        /\ stdout = <<>>
        /\ written = <<>>

(* The first directory is complete; the last lacks its potential and its  *)
(* structure factor.                                                      *)
C3_Witness ==
    /\ pc = "error"
    /\ Len(directories) = 2
    /\ directories[1] # directories[2]
    /\ \A f \in 1..3 : FileExists(1, f)
    /\ FileExists(2, 1) /\ ~FileExists(2, 2) /\ ~FileExists(2, 3)
    /\ reads = <<>>

LengthsAgree(i) ==
    /\ Len(fs[directories[i]].grid.data) = 3 * Len(fs[directories[i]].coulomb.data)
    /\ Len(fs[directories[i]].coulomb.data) = Len(fs[directories[i]].sf.data)

(* C4: a run whose grid file (element count / 3), potential file and       *)
(* structure-factor file do not hold the same number of values makes the   *)
(* loading fail, and no table is produced.                                 *)
C4_LengthMismatchRaises ==
    \A i \in DOMAIN directories :
        (pc \notin {"start", "found"} /\ ~LengthsAgree(i)) =>
            (pc = "error" /\ raw_SF = <<>>)

(* C5: the average table has one row per distinct G of any run, in strictly *)
(* ascending G, and its V_G and S_G are the arithmetic means over all rows  *)
(* of all runs with that G.                                                 *)
C5_AverageTable ==
    Averaged =>
        /\ \A k \in 1..(Len(SF) - 1) : SF[k].G < SF[k + 1].G
        /\ {SF[k].G : k \in DOMAIN SF} = UNION {RunGSet(i) : i \in Runs}
        /\ \A k \in DOMAIN SF :
              /\ SF[k].V_G[2] > 0
              /\ SF[k].S_G[2] > 0
              /\ SF[k].V_G[1] * CountAll(SF[k].G) = VSumAll(SF[k].G) * SF[k].V_G[2]
              /\ SF[k].S_G[1] * CountAll(SF[k].G) = SSumAll(SF[k].G) * SF[k].S_G[2]

(* Two groups; the first run lists the larger G first and some group holds *)
(* rows of several runs with a mean of 1/2.                                *)
C5_Witness ==
    /\ pc = "averaged"
    /\ Len(SF) = 2
    /\ Len(raw_SF) >= 2
    /\ Len(raw_SF[1]) >= 2
    /\ raw_SF[1][1].G > raw_SF[1][2].G
    /\ \E k \in DOMAIN SF : SF[k].S_G = <<1, 2>>

ExportData == written[1].table

ExportMap == written[2].table

ExportBlock(i) == SelectSeq(ExportData, LAMBDA r : r.Twist = i)

Untagged(rows) == [k \in 1..Len(rows) |-> [G |-> rows[k].G, V_G |-> rows[k].V_G, S_G |-> rows[k].S_G]]

Occurrences(rows, r) == Cardinality({k \in DOMAIN rows : rows[k] = r})

(* C6: the exported data table is N blocks in run order, block i holding   *)
(* exactly run i's rows tagged i and in ascending G; the map table pairs   *)
(* i with the i-th input directory, i = 1..N in order.                     *)
C6_ExportOrdering ==
    (written # <<>>) =>
        /\ Len(written) = 2
        /\ \A k \in DOMAIN ExportData : ExportData[k].Twist \in Runs
        /\ \A k \in 1..(Len(ExportData) - 1) : ExportData[k].Twist <= ExportData[k + 1].Twist
        /\ \A i \in Runs :
              /\ Len(ExportBlock(i)) = Len(raw_SF[i])
              /\ \A k \in DOMAIN raw_SF[i] :
                    Occurrences(Untagged(ExportBlock(i)), raw_SF[i][k])
                        = Occurrences(raw_SF[i], raw_SF[i][k])
              /\ \A k \in 1..(Len(ExportBlock(i)) - 1) :
                    ExportBlock(i)[k].G <= ExportBlock(i)[k + 1].G
        /\ Len(directories) = Len(raw_SF)
        /\ ExportMap = [i \in 1..Len(directories) |-> [Twist |-> i, directory |-> directories[i]]]

(* Two runs exported, the first of which lists a larger G before a smaller. *)
C6_Witness ==
    /\ pc = "written"
    /\ Len(raw_SF) = 2
    /\ Len(raw_SF[1]) = 2
    /\ raw_SF[1][1].G > raw_SF[1][2].G
    /\ ExportBlock(1)[1].G < ExportBlock(1)[2].G

(* C7: main either fails, and then nothing was exported or printed, or it   *)
(* goes through all stages and reports exactly one of the input             *)
(* directories; an export or a report implies that every stage succeeded.   *)
C7_AllOrNothing ==
    /\ (pc = "error") => (err # NoError /\ written = <<>> /\ stdout = <<>>)
    /\ (err # NoError) => (pc = "error")
    /\ (written # <<>> \/ FoundLines # {}) =>
          /\ err = NoError
          /\ SubSeq(calls, 1, 3) =
                <<"find_SF_outputs", "read_and_average_SF", "find_special_twist_angle">>
    /\ (pc = "done") =>
          /\ Cardinality(FoundLines) = 1
          /\ \A k \in FoundLines : stdout[k].arg[1] \in Range(directories)
          /\ write.given <=> (written # <<>>)

(* The latest error there is, with --write given. *)
C7_Witness ==
    /\ pc = "error"
    /\ write.given
    /\ err.origin = "find_special_twist_angle"
    /\ written = <<>>

RunOrders == {p \in [Runs -> Runs] : \A a, b \in Runs : p[a] = p[b] => a = b}

MeansOf(table) == [k \in 1..Len(table) |-> <<table[k].G, table[k].V_G, table[k].S_G>>]

(* C8: averaging the runs in any other order gives the same G rows in the *)
(* same order with the same mean V_G and mean S_G.                        *)
C8_OrderIndependent ==
    Averaged =>
        \A p \in RunOrders :
            MeansOf(AverageSF([i \in 1..Len(raw_SF) |-> raw_SF[p[i]]])) = MeansOf(SF)

(* Three different runs, the first starting with the larger G. *)
C8_Witness ==
    /\ pc = "averaged"
    /\ Len(raw_SF) = 3
    /\ raw_SF[1] # raw_SF[2] /\ raw_SF[2] # raw_SF[3] /\ raw_SF[1] # raw_SF[3]
    /\ raw_SF[1][1].G > raw_SF[2][1].G
    /\ Len(SF) = 2

Entries == UNION {{<<i, k>> : k \in DOMAIN raw_SF[i]} : i \in Runs}

(* The magnitude of the run's k-th grid vector, before rounding. *)
Magnitude(e) ==
    LET xyz == SubSeq(fs[directories[e[1]]].grid.data, 3 * e[2] - 2, 3 * e[2])
    IN  Sqrt(xyz[1] * xyz[1] + xyz[2] * xyz[2] + xyz[3] * xyz[3])

KeyOf(e) == raw_SF[e[1]][e[2]].G

GroupOf(e) == {k \in DOMAIN SF : SF[k].G = KeyOf(e)}

SameDigits(a, b) == Magnitude(a) \div RoundUnit = Magnitude(b) \div RoundUnit

(* C9 as stated: two magnitudes are in the same group of the average table *)
(* exactly when they agree in every digit up to the 10th decimal.          *)
C9_DigitGrouping ==
    Averaged =>
        \A a, b \in Entries :
            /\ Cardinality(GroupOf(a)) = 1
            /\ SameDigits(a, b) <=> (GroupOf(a) = GroupOf(b))

(* C9 as amended: every magnitude lies in the group of its nearest multiple *)
(* of 1e-10 (a tie going to the even multiple), so magnitudes more than     *)
(* 1e-10 apart are in distinct groups and magnitudes of one group are at    *)
(* most 1e-10 apart.                                                        *)
C9_NearestGrouping ==
    Averaged =>
        LET mag == [e \in Entries |-> Magnitude(e)]
        IN  \A a \in Entries :
                /\ Cardinality(GroupOf(a)) = 1
                /\ KeyOf(a) % RoundUnit = 0
                /\ 2 * Abs(mag[a] - KeyOf(a)) <= RoundUnit
                /\ (2 * Abs(mag[a] - KeyOf(a)) = RoundUnit) => ((KeyOf(a) \div RoundUnit) % 2 = 0)
                /\ \A b \in Entries :
                      (GroupOf(a) = GroupOf(b)) => (Abs(mag[a] - mag[b]) <= RoundUnit)

(* Magnitudes with the same first 10 digits in two groups, and magnitudes  *)
(* that differ in the 10th digit in one group.                             *)
C9_Witness ==
    /\ Averaged
    /\ \E a, b \in Entries : SameDigits(a, b) /\ GroupOf(a) # GroupOf(b)
    /\ \E a, b \in Entries : ~SameDigits(a, b) /\ GroupOf(a) = GroupOf(b)

EndsWith(s, suffix) ==
    Len(s) >= Len(suffix) /\ SubSeq(s, Len(s) - Len(suffix) + 1, Len(s)) = suffix

DataNameFor(name) == IF EndsWith(name, Csv) THEN name ELSE name \o Csv

MapNameFor(name) ==
    SubSeq(DataNameFor(name), 1, Len(DataNameFor(name)) - Len(Csv)) \o TwistSuffix

(* C10: the data file is the --write name, with '.csv' appended unless it  *)
(* ends in '.csv'; the map file is that name with its trailing '.csv'      *)
(* replaced by '_Twist_angle_Num_map.csv'.                                 *)
C10_ExportNames ==
    (written # <<>>) =>
        /\ written[1].name = DataNameFor(write.name)
        /\ written[2].name = MapNameFor(write.name)

====
